---- MODULE Spec2Model ----
(***************************************************************************)
(* Fleet management: TrafficManager (time-leased vertex/edge locks),       *)
(* Robot (movement state machine) and FleetManager (spawn, assign, tick,   *)
(* cancel), together with the simulation thread of main.py.                *)
(*                                                                         *)
(* Time is counted in tenths of a second: the simulation thread sleeps     *)
(* 0.1 s between two calls of update_robots, and update_robots caps its    *)
(* step at 0.1 s.  move_progress is counted in units of 0.005, the         *)
(* progress of one capped step (move_speed 0.05/s * 0.1 s), so that an     *)
(* edge is complete at 200 units.  Positions are fixed-point numbers with  *)
(* PosScale units per graph unit, which makes the smooth-step              *)
(* interpolation exact.                                                    *)
(***************************************************************************)
EXTENDS Integers, Sequences, FiniteSets, TLC

VARIABLES
    robots,          \* FleetManager.robots: robot_id -> Robot, ids 1..Len
    next_robot_id,   \* FleetManager.next_robot_id
    vertex_locks,    \* TrafficManager.vertex_locks: vertex -> (robot, time)
    edge_locks,      \* TrafficManager.edge_locks: <<from, to>> -> (robot, time)
    waiting_queues,  \* TrafficManager.waiting_queues: vertex -> list of robots
    last_update,     \* FleetManager.last_update (absent before the first tick)
    now,             \* time.time()
    sim_alive,       \* the simulation thread has not died of an exception
    tick_iter,       \* where update_robots is in its loop over the robots
    ret              \* what the last call did and returned

vars == <<robots, next_robot_id, vertex_locks, edge_locks, waiting_queues,
          last_update, now, sim_alive, tick_iter, ret>>

----------------------------------------------------------------------------
(* Bounds of the model *)

MaxRobots == 2

MaxTime == 260

\* the interactive driver issues its commands at multiples of this period
ClickPeriod == 50

\* calls made by the caller of the stand-alone TrafficManager, after the two
\* requests that make its first table
MaxCalls == 2

----------------------------------------------------------------------------
(* Program constants *)

None == 0

NoTime == -1

lock_duration == 50

MaxDelta == 1

TickPeriod == 1

RetryInterval == 10

move_speed == 1

ProgressFull == 200

PosScale == ProgressFull * ProgressFull * ProgressFull

IDLE == "Idle"
MOVING == "Moving"
WAITING == "Waiting"
TASK_COMPLETE == "Task Complete"
BLOCKED == "Blocked"

----------------------------------------------------------------------------
(* The navigation graph: 1 - 2 - 3 in a line, 4 isolated *)

Vertices == {1, 2, 3, 4}

GraphEdges == {<<1, 2>>, <<2, 1>>, <<2, 3>>, <<3, 2>>}

\* nav_graph.vertices: the planar coordinates of a vertex, in graph units
get_vertex_position(v) == <<(v - 1) * 10, (v % 2) * 5>>

get_shortest_path(from, to) ==
    IF from = to THEN <<from>>
    ELSE IF from = 4 \/ to = 4 THEN <<>>
    ELSE IF <<from, to>> \in GraphEdges THEN <<from, to>>
    ELSE <<from, 2, to>>

----------------------------------------------------------------------------
(* TrafficManager *)

Lock(robot_id, time) == [robot |-> robot_id, time |-> time]

\* lock_blocks without the expiry: a lease blocks until it is released
lock_blocks_forever(lock, robot_id, current_time) == lock.robot # robot_id

\* lock_blocks with the comparison of the age turned round
lock_blocks_inverted(lock, robot_id, current_time) ==
    /\ lock.robot # robot_id
    /\ current_time - lock.time > lock_duration

\* lock_robot != robot_id and current_time - lock_time < self.lock_duration
lock_blocks(lock, robot_id, current_time) ==
    /\ lock.robot # robot_id
    /\ current_time - lock.time < lock_duration

\* the scan of request_path from index i on: the first contested element
RECURSIVE scan_path(_, _, _, _, _, _)
scan_path(vl, el, robot_id, path, current_time, i) ==
    IF i > Len(path) - 1
    THEN [clear |-> TRUE, at |-> None, by |-> None]
    ELSE LET current_vertex == path[i]
             next_vertex    == path[i + 1]
             edge           == <<current_vertex, next_vertex>>
         IN  IF /\ current_vertex \in DOMAIN vl
                /\ lock_blocks(vl[current_vertex], robot_id, current_time)
             THEN [clear |-> FALSE, at |-> current_vertex,
                   by |-> vl[current_vertex].robot]
             ELSE IF /\ edge \in DOMAIN el
                     /\ lock_blocks(el[edge], robot_id, current_time)
             THEN [clear |-> FALSE, at |-> current_vertex, by |-> el[edge].robot]
             ELSE scan_path(vl, el, robot_id, path, current_time, i + 1)

\* a variant that appends the robot whether or not it is waiting already
enqueue_always(wq, v, robot_id) ==
    [u \in DOMAIN wq \cup {v} |->
        IF u = v THEN Append(IF v \in DOMAIN wq THEN wq[v] ELSE <<>>, robot_id)
        ELSE wq[u]]

\* if robot_id not in self.waiting_queues[v]: self.waiting_queues[v].append(robot_id)
\* (reading the defaultdict creates the key)
enqueue_waiting(wq, v, robot_id) ==
    LET old == IF v \in DOMAIN wq THEN wq[v] ELSE <<>>
        new == IF \E k \in 1..Len(old) : old[k] = robot_id
               THEN old ELSE Append(old, robot_id)
    IN  [u \in DOMAIN wq \cup {v} |-> IF u = v THEN new ELSE wq[u]]

\* a variant that stamps the last vertex of the path as well
all_vertices(path) == {path[i] : i \in 1..Len(path)}

\* the vertices and the edges the second loop of request_path stamps
stamped_vertices(path) == {path[i] : i \in 1..(Len(path) - 1)}

stamped_edges(path) == {<<path[i], path[i + 1]>> : i \in 1..(Len(path) - 1)}

make_reservations(locks, elements, robot_id, current_time) ==
    [e \in DOMAIN locks \cup elements |->
        IF e \in elements THEN Lock(robot_id, current_time) ELSE locks[e]]

\* tm is the TrafficManager: [vertex_locks, edge_locks, waiting_queues]

\* the first loop with range(1, len(path) - 1): the first vertex and edge skipped
first_contested_from_second(tm, robot_id, path, current_time) ==
    scan_path(tm.vertex_locks, tm.edge_locks, robot_id, path, current_time, 2)

\* the first loop of request_path: for i in range(len(path) - 1)
first_contested(tm, robot_id, path, current_time) ==
    scan_path(tm.vertex_locks, tm.edge_locks, robot_id, path, current_time, 1)

\* deny_request after the vertices before the contested one were stamped
\* (check and reservation in one loop)
deny_request_partial(tm, robot_id, path, current_time, found) ==
    [granted |-> FALSE, blocking |-> found.by,
     tm |-> [tm EXCEPT
         !.waiting_queues = enqueue_waiting(tm.waiting_queues, found.at, robot_id),
         !.vertex_locks   = make_reservations(tm.vertex_locks,
                                {path[i] : i \in {k \in 1..(Len(path) - 1) :
                                     \A j \in 1..k : path[j] # found.at}},
                                robot_id, current_time)]]

\* the return inside the first loop: the robot waits at the contested vertex
deny_request(tm, robot_id, path, current_time, found) ==
    [granted |-> FALSE, blocking |-> found.by,
     tm |-> [tm EXCEPT !.waiting_queues =
                enqueue_waiting(tm.waiting_queues, found.at, robot_id)]]

\* the second loop: the path is clear, make the reservations
grant_request(tm, robot_id, path, current_time) ==
    [granted |-> TRUE, blocking |-> None,
     tm |-> [tm EXCEPT
         !.vertex_locks = make_reservations(tm.vertex_locks,
                             stamped_vertices(path), robot_id, current_time),
         !.edge_locks   = make_reservations(tm.edge_locks,
                             stamped_edges(path), robot_id, current_time)]]

request_path(tm, robot_id, path, current_time) ==
    LET found == first_contested(tm, robot_id, path, current_time)
    IN  IF ~found.clear
        THEN deny_request(tm, robot_id, path, current_time, found)
        ELSE grant_request(tm, robot_id, path, current_time)

\* the waiting list is kept ("keep robots in queue until they successfully move")
keep_waiting(wq, vertex_id) == wq

\* self.waiting_queues[vertex_id] = []
clear_waiting(wq, vertex_id) == [wq EXCEPT ![vertex_id] = <<>>]

\* a variant that returns the first waiter only
first_waiter(wq, vertex_id) ==
    IF wq[vertex_id] = <<>> THEN <<>> ELSE <<Head(wq[vertex_id])>>

\* self.waiting_queues[vertex_id].copy()
copy_waiting(wq, vertex_id) == wq[vertex_id]

\* a variant that takes the vertex from whoever holds it
vertex_locked(vl, robot_id, vertex_id) == vertex_id \in DOMAIN vl

\* vertex_id in self.vertex_locks and self.vertex_locks[vertex_id][0] == robot_id
holds_vertex(vl, robot_id, vertex_id) ==
    /\ vertex_id \in DOMAIN vl
    /\ vl[vertex_id].robot = robot_id

\* a variant that leaves the edge locks in place
no_edges(el, robot_id) == {}

\* the edges whose lock is recorded for the robot
edges_to_remove(el, robot_id) == {e \in DOMAIN el : el[e].robot = robot_id}

\* returns the waiting list (a copy) when the vertex has a key in
\* waiting_queues, and None (is_none) otherwise
release_path(tm, robot_id, vertex_id) ==
    LET vl == IF holds_vertex(tm.vertex_locks, robot_id, vertex_id)
              THEN [v \in DOMAIN tm.vertex_locks \ {vertex_id} |-> tm.vertex_locks[v]]
              ELSE tm.vertex_locks
        el == [e \in DOMAIN tm.edge_locks \ edges_to_remove(tm.edge_locks, robot_id)
                   |-> tm.edge_locks[e]]
    IN  IF vertex_id \in DOMAIN tm.waiting_queues
        THEN [is_none |-> FALSE,
              waiting_robots |-> copy_waiting(tm.waiting_queues, vertex_id),
              tm |-> [vertex_locks |-> vl, edge_locks |-> el,
                      waiting_queues |-> clear_waiting(tm.waiting_queues, vertex_id)]]
        ELSE [is_none |-> TRUE, waiting_robots |-> <<>>,
              tm |-> [vertex_locks |-> vl, edge_locks |-> el,
                      waiting_queues |-> tm.waiting_queues]]

----------------------------------------------------------------------------
(* Robot *)

Robot(robot_id, spawn_vertex) ==
    [robot_id           |-> robot_id,
     current_vertex     |-> spawn_vertex,
     target_vertex      |-> None,
     status             |-> IDLE,
     path               |-> <<>>,
     current_edge_index |-> 0,
     current_x          |-> 0,
     current_y          |-> 0,
     move_progress      |-> 0,
     blocked_by         |-> None,
     last_retry_time    |-> NoTime]

\* a position of the graph as a fixed-point robot position
ToFixed(c) == c * PosScale

\* a variant that keeps the cursor of the task before
start_task_keep_cursor(robot, target, path, start_pos) ==
    [robot EXCEPT !.target_vertex      = target,
                  !.path               = path,
                  !.status             = MOVING,
                  !.current_x          = ToFixed(start_pos[1]),
                  !.current_y          = ToFixed(start_pos[2]),
                  !.move_progress      = 0]

start_task(robot, target, path, start_pos) ==
    [robot EXCEPT !.target_vertex      = target,
                  !.path               = path,
                  !.current_edge_index = 0,
                  !.status             = MOVING,
                  !.current_x          = ToFixed(start_pos[1]),
                  !.current_y          = ToFixed(start_pos[2]),
                  !.move_progress      = 0]

set_blocked(robot, blocking_robot_id) ==
    [robot EXCEPT !.status = BLOCKED, !.blocked_by = blocking_robot_id]

Max(a, b) == IF a >= b THEN a ELSE b

Min(a, b) == IF a <= b THEN a ELSE b

\* x * x * (3 - 2 * x) on the clamped progress x / ProgressFull, times PosScale
smooth_step(x) ==
    LET c == Max(0, Min(ProgressFull, x))
    IN  c * c * (3 * ProgressFull - 2 * c)

\* start + (end - start) * t with t / PosScale clamped to [0, 1], times PosScale
lerp(start, end, t) ==
    start * PosScale + (end - start) * Max(0, Min(PosScale, t))

\* complete_task without the snap to the target's position
complete_task_no_snap(robot) ==
    [robot EXCEPT !.status         = TASK_COMPLETE,
                  !.current_vertex = robot.target_vertex]

\* the end of the path is reached: snap to the target
complete_task(robot) ==
    LET final_pos == get_vertex_position(robot.target_vertex)
    IN  [robot EXCEPT !.current_x      = ToFixed(final_pos[1]),
                      !.current_y      = ToFixed(final_pos[2]),
                      !.status         = TASK_COMPLETE,
                      !.current_vertex = robot.target_vertex]

\* progress along the current edge, and the interpolated position
advance_on_edge(robot, delta_time) ==
    LET current_vertex == robot.path[robot.current_edge_index + 1]
        next_vertex    == robot.path[robot.current_edge_index + 2]
        progress       == robot.move_progress + move_speed * delta_time
        completed      == progress >= ProgressFull
        index          == IF completed THEN robot.current_edge_index + 1
                          ELSE robot.current_edge_index
        onward         == completed /\ index < Len(robot.path) - 1
        current_pos    == get_vertex_position(
                              IF onward THEN robot.path[index + 1]
                              ELSE current_vertex)
        next_pos       == get_vertex_position(
                              IF onward THEN robot.path[index + 2]
                              ELSE next_vertex)
        move_progress  == IF completed THEN 0 ELSE progress
        t              == smooth_step(move_progress)
    IN  [robot EXCEPT
            !.current_edge_index = index,
            !.move_progress      = move_progress,
            !.current_vertex     = IF completed THEN next_vertex
                                   ELSE robot.current_vertex,
            !.current_x          = lerp(current_pos[1], next_pos[1], t),
            !.current_y          = lerp(current_pos[2], next_pos[2], t)]

update_position(robot, delta_time) ==
    IF robot.status # MOVING \/ robot.path = <<>>
    THEN robot
    ELSE IF robot.current_edge_index >= Len(robot.path) - 1
    THEN complete_task(robot)
    ELSE advance_on_edge(robot, delta_time)

----------------------------------------------------------------------------
(* FleetManager.  fm is [robots, tm]: the robots and the TrafficManager. *)

spawn_robot(fm, id, vertex_id) ==
    IF vertex_id \notin Vertices
    THEN [spawned |-> FALSE, fm |-> fm]
    ELSE LET pos   == get_vertex_position(vertex_id)
             robot == [Robot(id, vertex_id) EXCEPT
                          !.current_x = ToFixed(pos[1]),
                          !.current_y = ToFixed(pos[2])]
         IN  [spawned |-> TRUE, fm |-> [fm EXCEPT !.robots = Append(fm.robots, robot)]]

\* a variant that takes a task in any status
accepts_task_always(robot) == TRUE

\* robot.status in [RobotStatus.IDLE, RobotStatus.TASK_COMPLETE]
accepts_task(robot) == robot.status \in {IDLE, TASK_COMPLETE}

assign_task(fm, robot_id, target_vertex, current_time) ==
    IF robot_id \notin DOMAIN fm.robots
    THEN [ok |-> FALSE, blocking |-> None, fm |-> fm]
    ELSE LET robot == fm.robots[robot_id]
             path  == get_shortest_path(robot.current_vertex, target_vertex)
         IN  IF ~accepts_task(robot)
             THEN [ok |-> FALSE, blocking |-> None, fm |-> fm]
             ELSE IF path = <<>>
             THEN [ok |-> FALSE, blocking |-> None, fm |-> fm]
             ELSE LET req == request_path(fm.tm, robot_id, path, current_time)
                  IN  IF ~req.granted
                      THEN [ok |-> FALSE, blocking |-> req.blocking,
                            fm |-> [robots |-> [fm.robots EXCEPT ![robot_id] =
                                                   set_blocked(robot, req.blocking)],
                                    tm |-> req.tm]]
                      ELSE [ok |-> TRUE, blocking |-> None,
                            fm |-> [robots |-> [fm.robots EXCEPT ![robot_id] =
                                       start_task(robot, target_vertex, path,
                                           get_vertex_position(robot.current_vertex))],
                                    tm |-> req.tm]]

\* a variant without the backoff
retry_any_time(robot, current_time) == FALSE

\* hasattr(robot, 'last_retry_time') and current_time - robot.last_retry_time < 1.0
retry_too_soon(robot, current_time) ==
    /\ robot.last_retry_time # NoTime
    /\ current_time - robot.last_retry_time < RetryInterval

\* one round of the loop of update_robots, on the i-th robot; st is [fm,
\* raised, retried]: raised says that the loop was left by an exception, and
\* retried is the set of the robots whose assignment the loop has attempted
\* again
update_robot(st, i, current_time, delta_time) ==
    LET robot == st.fm.robots[i]
    IN  IF robot.status = MOVING
        THEN LET old_vertex == robot.current_vertex
                 moved      == update_position(robot, delta_time)
                 fm1        == [st.fm EXCEPT !.robots[i] = moved]
             IN  IF moved.current_vertex # old_vertex
                 THEN LET rel == release_path(fm1.tm, robot.robot_id, old_vertex)
                          fm2 == [fm1 EXCEPT !.tm = rel.tm]
                      IN  \* next_robot is a list or None: `next_robot in
                          \* self.robots` hashes it, and a list is unhashable
                          [st EXCEPT !.fm = fm2, !.raised = ~rel.is_none]
                 ELSE [st EXCEPT !.fm = fm1]
        ELSE IF robot.status = BLOCKED
        THEN IF retry_too_soon(robot, current_time)
             THEN st
             ELSE LET fm1 == [st.fm EXCEPT !.robots[i].last_retry_time = current_time]
                      fm2 == IF robot.target_vertex # None
                             THEN assign_task(fm1, robot.robot_id,
                                              robot.target_vertex, current_time).fm
                             ELSE fm1
                      again == IF robot.target_vertex # None
                               THEN st.retried \cup {robot.robot_id}
                               ELSE st.retried
                  IN  [st EXCEPT !.fm = fm2, !.retried = again]
        ELSE st

\* the loop of update_robots from the i-th robot on
RECURSIVE update_from(_, _, _, _)
update_from(st, i, current_time, delta_time) ==
    IF st.raised \/ i > Len(st.fm.robots)
    THEN st
    ELSE update_from(update_robot(st, i, current_time, delta_time), i + 1,
                     current_time, delta_time)

\* delta_time = min(0.1, current_time - getattr(self, 'last_update', current_time))
tick_delta(current_time, last) ==
    Min(MaxDelta, current_time - (IF last = NoTime THEN current_time ELSE last))

update_robots(fm, current_time, last) ==
    update_from([fm |-> fm, raised |-> FALSE, retried |-> {}], 1, current_time,
                tick_delta(current_time, last))

\* release_path(robot_id) lacks the vertex_id argument: the call raises
\* TypeError before release_path runs
\* a variant that also cancels a BLOCKED robot
cancellable_or_blocked(robot) == robot.status \in {MOVING, WAITING, BLOCKED}

\* robot.status in [RobotStatus.MOVING, RobotStatus.WAITING]
cancellable(robot) == robot.status \in {MOVING, WAITING}

cancel_task(fm, robot_id) ==
    IF robot_id \notin DOMAIN fm.robots
    THEN [ok |-> FALSE, raised |-> FALSE, fm |-> fm]
    ELSE IF cancellable(fm.robots[robot_id])
    THEN [ok |-> FALSE, raised |-> TRUE, fm |-> fm]
    ELSE [ok |-> FALSE, raised |-> FALSE, fm |-> fm]

----------------------------------------------------------------------------
(* The program: the interactive driver's commands and the simulation thread *)

TM == [vertex_locks |-> vertex_locks, edge_locks |-> edge_locks,
       waiting_queues |-> waiting_queues]

FM == [robots |-> robots, tm |-> TM]

\* ret.prev of a call that follows none
NoCall == [op |-> "none", robot |-> None, vertex |-> None, waiting |-> <<>>]

\* ret.prev of the call that follows the call of ret
LastCall == [op |-> ret.op, robot |-> ret.robot, vertex |-> ret.vertex,
             waiting |-> ret.waiting]

Ret(op, robot, vertex, ok, blocking, raised) ==
    [op |-> op, robot |-> robot, vertex |-> vertex, ok |-> ok,
     blocking |-> blocking, raised |-> raised, waiting |-> <<>>, path |-> <<>>,
     retried |-> {}, appended |-> FALSE, call |-> 0, prev |-> NoCall]

EmptyMap == [x \in {} |-> None]

\* update_robots is not running
\* (pos: the robot the loop handles next, size: the number of robots when the
\* loop began, time and delta: current_time and delta_time of the call)
NoTick == [pos |-> 0, size |-> 0, time |-> 0, delta |-> 0, retried |-> {}]

Init ==
    /\ robots = <<>>
    /\ next_robot_id = 1
    /\ vertex_locks = EmptyMap
    /\ edge_locks = EmptyMap
    /\ waiting_queues = EmptyMap
    /\ last_update = NoTime
    /\ now = 0
    /\ sim_alive = TRUE
    /\ tick_iter = NoTick
    /\ ret = Ret("init", None, None, TRUE, None, FALSE)

Becomes(fm) ==
    /\ robots' = fm.robots
    /\ vertex_locks' = fm.tm.vertex_locks
    /\ edge_locks' = fm.tm.edge_locks
    /\ waiting_queues' = fm.tm.waiting_queues

\* the user clicks at these instants
Click == now % ClickPeriod = 0

Spawn(vertex_id) ==
    /\ Click
    /\ next_robot_id <= MaxRobots
    /\ LET r == spawn_robot(FM, next_robot_id, vertex_id)
       IN  /\ Becomes(r.fm)
           /\ next_robot_id' = IF r.spawned THEN next_robot_id + 1 ELSE next_robot_id
           /\ ret' = Ret("spawn", IF r.spawned THEN next_robot_id ELSE None,
                         vertex_id, r.spawned, None, FALSE)
    /\ UNCHANGED <<last_update, now, sim_alive, tick_iter>>

Assign(robot_id, target_vertex) ==
    /\ Click
    /\ LET r == assign_task(FM, robot_id, target_vertex, now)
       IN  /\ Becomes(r.fm)
           /\ ret' = Ret("assign", robot_id, target_vertex, r.ok, r.blocking, FALSE)
    /\ UNCHANGED <<next_robot_id, last_update, now, sim_alive, tick_iter>>

Cancel(robot_id) ==
    /\ Click
    /\ LET r == cancel_task(FM, robot_id)
       IN  /\ Becomes(r.fm)
           /\ ret' = Ret("cancel", robot_id, None, r.ok, None, r.raised)
    /\ UNCHANGED <<next_robot_id, last_update, now, sim_alive, tick_iter>>

\* one round of simulation_thread: update_robots, 0.1 s after the last one
Tick ==
    /\ sim_alive
    /\ tick_iter = NoTick
    /\ now < MaxTime
    /\ now' = now + TickPeriod
    /\ LET r == update_robots(FM, now', last_update)
       IN  /\ Becomes(r.fm)
           /\ sim_alive' = ~r.raised
           /\ ret' = [Ret("tick", None, None, ~r.raised, None, r.raised)
                         EXCEPT !.retried = r.retried]
    /\ last_update' = now'
    /\ UNCHANGED <<next_robot_id, tick_iter>>

\* time passes with the simulation thread dead
Elapse ==
    /\ ~sim_alive
    /\ now < MaxTime
    /\ now' = now + TickPeriod
    /\ ret' = Ret("elapse", None, None, TRUE, None, FALSE)
    /\ UNCHANGED <<robots, next_robot_id, vertex_locks, edge_locks,
                   waiting_queues, last_update, sim_alive, tick_iter>>

Next ==
    \/ \E v \in Vertices \cup {99} : Spawn(v)
    \/ \E r \in 1..MaxRobots, v \in Vertices : Assign(r, v)
    \/ \E r \in 1..MaxRobots : Cancel(r)
    \/ Tick
    \/ Elapse

Spec == Init /\ [][Next]_vars

----------------------------------------------------------------------------
(* The two threads of main.py, without the assumption that a call of        *)
(* update_robots runs alone: the simulation thread takes the rounds of its   *)
(* loop one at a time, and the commands of the GUI thread run between them   *)
(* (the interpreter switches threads between two bytecodes: at the print     *)
(* calls of release_path, and whenever its switch interval has run out).     *)
(* The run is followed up to the first tick that meets a click.              *)

\* update_robots up to the start of its loop
TickBegin ==
    /\ sim_alive
    /\ tick_iter = NoTick
    /\ now < ClickPeriod
    /\ now' = now + TickPeriod
    /\ last_update' = now'
    /\ tick_iter' = [pos |-> 1, size |-> Len(robots), time |-> now',
                     delta |-> tick_delta(now', last_update), retried |-> {}]
    /\ ret' = Ret("tick_begin", None, None, TRUE, None, FALSE)
    /\ UNCHANGED <<robots, next_robot_id, vertex_locks, edge_locks,
                   waiting_queues, sim_alive>>

\* one round of the loop of update_robots.  The iterator of a dict raises
\* RuntimeError when the dict has changed size since the loop began.
TickStep ==
    /\ tick_iter.pos > 0
    /\ IF Len(robots) # tick_iter.size
       THEN /\ sim_alive' = FALSE
            /\ tick_iter' = NoTick
            /\ ret' = [Ret("tick", None, None, FALSE, None, TRUE)
                          EXCEPT !.retried = tick_iter.retried]
            /\ UNCHANGED <<robots, vertex_locks, edge_locks, waiting_queues>>
       ELSE IF tick_iter.pos > Len(robots)
       THEN /\ tick_iter' = NoTick
            /\ ret' = [Ret("tick", None, None, TRUE, None, FALSE)
                          EXCEPT !.retried = tick_iter.retried]
            /\ UNCHANGED <<robots, vertex_locks, edge_locks, waiting_queues,
                           sim_alive>>
       ELSE LET st == update_robot([fm |-> FM, raised |-> FALSE,
                                    retried |-> tick_iter.retried],
                                   tick_iter.pos, tick_iter.time, tick_iter.delta)
            IN  /\ Becomes(st.fm)
                /\ sim_alive' = ~st.raised
                /\ tick_iter' = IF st.raised THEN NoTick
                                ELSE [tick_iter EXCEPT !.pos = @ + 1,
                                                       !.retried = st.retried]
                /\ ret' = [Ret(IF st.raised THEN "tick" ELSE "tick_step",
                               None, None, ~st.raised, None, st.raised)
                              EXCEPT !.retried = st.retried]
    /\ UNCHANGED <<next_robot_id, last_update, now>>

ThreadsNext ==
    \/ \E v \in Vertices \cup {99} : Spawn(v)
    \/ \E r \in 1..MaxRobots, v \in Vertices : Assign(r, v)
    \/ \E r \in 1..MaxRobots : Cancel(r)
    \/ TickBegin
    \/ TickStep

SpecThreads == Init /\ [][ThreadsNext]_vars


----------------------------------------------------------------------------
(* The TrafficManager alone, under any caller: request_path and              *)
(* release_path on any robot, path of the graph and vertex, at the instants  *)
(* around the expiry of a lease.  The calls start from the table that two    *)
(* requests of robots 1 and 2 at time 0 leave.                               *)

TMRobots == 1..MaxRobots

\* no path, the path of a robot that stays, and the paths of the line 1 - 2 - 3
TMPaths == {<<>>, <<2>>, <<1, 2>>, <<2, 1>>, <<2, 3>>, <<3, 2>>,
            <<1, 2, 3>>, <<3, 2, 1>>}

\* the instants of the calls: a lease taken at 0 or at 1 is looked at when it
\* is lock_duration - 1 and lock_duration old
TMTimes == {0, 1, lock_duration}

TMRequest(robot_id, path) ==
    /\ ret.call < MaxCalls
    /\ LET r == request_path(TM, robot_id, path, now)
       IN  /\ vertex_locks' = r.tm.vertex_locks
           /\ edge_locks' = r.tm.edge_locks
           /\ waiting_queues' = r.tm.waiting_queues
           /\ ret' = [Ret("request", robot_id, None, r.granted, r.blocking, FALSE)
                         EXCEPT !.path = path, !.call = ret.call + 1, !.prev = LastCall,
                                \* "Robot ... waiting at vertex ..." was printed
                                !.appended = r.tm.waiting_queues # waiting_queues]
    /\ UNCHANGED <<robots, next_robot_id, last_update, now, sim_alive, tick_iter>>

TMRelease(robot_id, vertex_id) ==
    /\ ret.call < MaxCalls
    /\ LET r == release_path(TM, robot_id, vertex_id)
       IN  /\ vertex_locks' = r.tm.vertex_locks
           /\ edge_locks' = r.tm.edge_locks
           /\ waiting_queues' = r.tm.waiting_queues
           /\ ret' = [Ret("release", robot_id, vertex_id, ~r.is_none, None, FALSE)
                         EXCEPT !.waiting = r.waiting_robots, !.call = ret.call + 1,
                                !.prev = LastCall]
    /\ UNCHANGED <<robots, next_robot_id, last_update, now, sim_alive, tick_iter>>

TMElapse ==
    /\ \E t \in TMTimes : t > now /\ now' = t
    /\ ret' = [Ret("elapse", None, None, TRUE, None, FALSE)
                  EXCEPT !.call = ret.call, !.prev = LastCall]
    /\ UNCHANGED <<robots, next_robot_id, vertex_locks, edge_locks,
                   waiting_queues, last_update, sim_alive, tick_iter>>

TMNext ==
    \/ \E r \in TMRobots, p \in TMPaths : TMRequest(r, p)
    \/ \E r \in TMRobots, v \in {1, 2, 3} : TMRelease(r, v)
    \/ TMElapse

EmptyTM == [vertex_locks |-> EmptyMap, edge_locks |-> EmptyMap,
            waiting_queues |-> EmptyMap]

InitTM ==
    /\ robots = <<>>
    /\ next_robot_id = 1
    /\ \E p \in TMPaths, q \in TMPaths :
          LET tm == request_path(request_path(EmptyTM, 1, p, 0).tm, 2, q, 0).tm
          IN  /\ vertex_locks = tm.vertex_locks
              /\ edge_locks = tm.edge_locks
              /\ waiting_queues = tm.waiting_queues
    /\ last_update = NoTime
    /\ now = 0
    /\ sim_alive = TRUE
    /\ tick_iter = NoTick
    /\ ret = Ret("init", None, None, TRUE, None, FALSE)

SpecTM == InitTM /\ [][TMNext]_vars

----------------------------------------------------------------------------
(* release_path alone, on the tables that two rounds of requests leave: the  *)
(* requests of robots 1 and 2 at time 0, and two requests of any robots one  *)
(* lock_duration later.                                                      *)

InitRelease ==
    /\ robots = <<>>
    /\ next_robot_id = 1
    /\ \E p \in TMPaths, q \in TMPaths, a \in TMRobots, b \in TMRobots,
          s \in TMPaths, t \in TMPaths :
          LET tm0 == request_path(request_path(EmptyTM, 1, p, 0).tm, 2, q, 0).tm
              tm1 == request_path(tm0, a, s, lock_duration).tm
              tm  == request_path(tm1, b, t, lock_duration).tm
          IN  /\ vertex_locks = tm.vertex_locks
              /\ edge_locks = tm.edge_locks
              /\ waiting_queues = tm.waiting_queues
    /\ last_update = NoTime
    /\ now = lock_duration
    /\ sim_alive = TRUE
    /\ tick_iter = NoTick
    /\ ret = Ret("init", None, None, TRUE, None, FALSE)

ReleaseNext == \E r \in TMRobots, v \in {1, 2, 3} : TMRelease(r, v)

SpecRelease == InitRelease /\ [][ReleaseNext]_vars

----------------------------------------------------------------------------
(* Properties *)

RobotIds == DOMAIN robots

Range(seq) == {seq[k] : k \in DOMAIN seq}

\* the robot is on an edge of its path
Traversing(r) ==
    /\ robots[r].status = MOVING
    /\ robots[r].current_edge_index < Len(robots[r].path) - 1

\* the edge {path[cursor], path[cursor + 1]}, without its direction
TraversedEdge(r) ==
    {robots[r].path[robots[r].current_edge_index + 1],
     robots[r].path[robots[r].current_edge_index + 2]}

\* C1: no two distinct MOVING robots traverse the same edge at the same time,
\* the two directions of an edge counting as the same edge.
C1_NoSharedEdge ==
    \A a \in RobotIds, b \in RobotIds :
        (a # b /\ Traversing(a) /\ Traversing(b))
            => TraversedEdge(a) # TraversedEdge(b)

\* C2: no two distinct robots have the same current_vertex.
C2_DistinctVertices ==
    \A a \in RobotIds, b \in RobotIds :
        a # b => robots[a].current_vertex # robots[b].current_vertex

\* the lease of a lock is unexpired at time t
Unexpired(lock, t) == t - lock.time < lock_duration

\* no vertex and no edge is under an unexpired lease of a robot other than b
NoLeaseOfOthers(b, t) ==
    /\ \A v \in DOMAIN vertex_locks :
           vertex_locks[v].robot = b \/ ~Unexpired(vertex_locks[v], t)
    /\ \A e \in DOMAIN edge_locks :
           edge_locks[e].robot = b \/ ~Unexpired(edge_locks[e], t)

\* C6: a BLOCKED robot whose path is free (here: every lease of every other
\* robot has expired or is released) is MOVING after a tick that finds its
\* retry due.
C6_BlockedRecovers ==
    [][\A b \in RobotIds :
          ( /\ ret'.op = "tick"
            /\ ~ret'.raised
            /\ robots[b].status = BLOCKED
            /\ \/ robots[b].last_retry_time = NoTime
               \/ now' - robots[b].last_retry_time >= RetryInterval
            /\ NoLeaseOfOthers(b, now') )
          => robots'[b].status = MOVING]_vars

\* the vertices a MOVING robot reserved for its path and has not left
HeldVertices(a) ==
    {robots[a].path[k] :
        k \in (robots[a].current_edge_index + 1)..(Len(robots[a].path) - 1)}

\* the directed edges a MOVING robot reserved for its path and has not left
HeldEdges(a) ==
    {<<robots[a].path[k], robots[a].path[k + 1]>> :
        k \in (robots[a].current_edge_index + 1)..(Len(robots[a].path) - 1)}

\* C7: an assignment of an IDLE or TASK_COMPLETE robot B whose shortest path
\* has, as a non-final vertex or as a directed edge, an element that a MOVING
\* robot A reserved and has not left, returns false, reserves nothing and
\* leaves B BLOCKED with blocked_by = A.
C7_DeniedDuringTraversal ==
    [][\A a \in RobotIds, b \in RobotIds :
          LET path == get_shortest_path(robots[b].current_vertex, ret'.vertex)
          IN  ( /\ ret'.op = "assign"
                /\ ret'.robot = b
                /\ a # b
                /\ robots[b].status \in {IDLE, TASK_COMPLETE}
                /\ robots[a].status = MOVING
                /\ \/ stamped_vertices(path) \cap HeldVertices(a) # {}
                   \/ stamped_edges(path) \cap HeldEdges(a) # {} )
              => ( /\ ~ret'.ok
                   /\ vertex_locks' = vertex_locks
                   /\ edge_locks' = edge_locks
                   /\ robots'[b].status = BLOCKED
                   /\ robots'[b].blocked_by = a )]_vars

\* C9: a TASK_COMPLETE robot is at its target vertex, the last vertex of its
\* path, and its position is exactly the position of that vertex.
C9_CompleteAtTarget ==
    \A r \in RobotIds :
        robots[r].status = TASK_COMPLETE
            => /\ robots[r].current_vertex = robots[r].target_vertex
               /\ robots[r].path # <<>>
               /\ robots[r].target_vertex = robots[r].path[Len(robots[r].path)]
               /\ robots[r].current_x =
                      ToFixed(get_vertex_position(robots[r].target_vertex)[1])
               /\ robots[r].current_y =
                      ToFixed(get_vertex_position(robots[r].target_vertex)[2])

\* a robot has completed a path of two vertices or more
C9_Witness ==
    \E r \in RobotIds :
        /\ robots[r].status = TASK_COMPLETE
        /\ Len(robots[r].path) >= 2

C11_AssignRefused ==
    [][ ( /\ ret'.op = "assign"
          /\ \/ ret'.robot \notin RobotIds
             \/ robots[ret'.robot].status \notin {IDLE, TASK_COMPLETE}
             \/ get_shortest_path(robots[ret'.robot].current_vertex,
                                  ret'.vertex) = <<>> )
        => /\ ~ret'.ok
           /\ ~ret'.raised
           /\ robots' = robots
           /\ vertex_locks' = vertex_locks
           /\ edge_locks' = edge_locks
           /\ waiting_queues' = waiting_queues
      ]_vars

\* an assignment to a robot on its way was refused: the robot is on an edge
\* of the path it had, towards the target it had
C11_Witness ==
    /\ ret.op = "assign"
    /\ ~ret.ok
    /\ ret.robot \in RobotIds
    /\ robots[ret.robot].status = MOVING
    /\ robots[ret.robot].move_progress > 0
    /\ robots[ret.robot].target_vertex # ret.vertex

\* C12: a cancel of a MOVING or WAITING robot completes and returns true; the
\* robot is then IDLE with no path and no target, and holds no reservation of
\* the vertex it is at.
C12_CancelMoving ==
    [][ ( /\ ret'.op = "cancel"
          /\ ret'.robot \in RobotIds
          /\ robots[ret'.robot].status \in {MOVING, WAITING} )
        => /\ ret'.ok
           /\ ~ret'.raised
           /\ robots'[ret'.robot].status = IDLE
           /\ robots'[ret'.robot].path = <<>>
           /\ robots'[ret'.robot].target_vertex = None
           /\ LET v == robots[ret'.robot].current_vertex
              IN  v \in DOMAIN vertex_locks'
                      => vertex_locks'[v].robot # ret'.robot
      ]_vars

\* C13: a cancel of an unknown robot, or of a robot that is IDLE, BLOCKED or
\* TASK_COMPLETE, returns false and changes no robot, no reservation and no
\* waiting list.
C13_CancelRefused ==
    [][ ( /\ ret'.op = "cancel"
          /\ \/ ret'.robot \notin RobotIds
             \/ robots[ret'.robot].status \in {IDLE, BLOCKED, TASK_COMPLETE} )
        => /\ ~ret'.ok
           /\ ~ret'.raised
           /\ robots' = robots
           /\ vertex_locks' = vertex_locks
           /\ edge_locks' = edge_locks
           /\ waiting_queues' = waiting_queues
      ]_vars

\* a cancel of a BLOCKED robot that waits at a vertex was refused
C13_Witness ==
    /\ ret.op = "cancel"
    /\ ~ret.ok
    /\ ret.robot \in RobotIds
    /\ robots[ret.robot].status = BLOCKED
    /\ \E v \in DOMAIN waiting_queues : ret.robot \in Range(waiting_queues[v])

\* C15: when a release made by a tick or by a cancel takes robots off the
\* waiting list of a vertex, the same operation attempts again the assignment
\* of each of them that is BLOCKED with a target.
C15_WaitersReattempted ==
    [][ ret'.op \in {"tick", "cancel"}
        => \A v \in DOMAIN waiting_queues :
              \A w \in Range(waiting_queues[v]) :
                  ( /\ w \notin Range(waiting_queues'[v])
                    /\ robots[w].status = BLOCKED
                    /\ robots[w].target_vertex # None )
                  => w \in ret'.retried
      ]_vars

\* C16: no tick aborts: every call of update_robots runs to its end and the
\* simulation thread lives on.
C16_TickNeverAborts ==
    /\ sim_alive
    /\ ~(ret.op = "tick" /\ ret.raised)

\* C17: no spawn, assign or cancel of the GUI thread runs between the start
\* and the end of a call of update_robots, so that the robots never change in
\* number while the call loops over them.
C17_CommandsOutsideTick ==
    [][ ret'.op \in {"spawn", "assign", "cancel"} => tick_iter = NoTick ]_vars

\* C18: a robot has a target exactly when it is MOVING, BLOCKED or WAITING.
C18_TargetIffBusy ==
    \A r \in RobotIds :
        robots[r].target_vertex # None
            <=> robots[r].status \in {MOVING, BLOCKED, WAITING}

\* the cursor of the robot is on an edge of its path
CursorOnEdge(r) ==
    /\ robots[r].path # <<>>
    /\ 0 <= robots[r].current_edge_index
    /\ robots[r].current_edge_index < Len(robots[r].path) - 1

\* C19 as claimed: the path of a robot is non-empty with the cursor on one of
\* its edges exactly when the robot is MOVING.
C19_PathIffMoving ==
    \A r \in RobotIds : CursorOnEdge(r) <=> robots[r].status = MOVING

\* C19 as amended: a MOVING robot has a non-empty path and a cursor on one of
\* its edges or at its last vertex, and a robot with a non-empty path and the
\* cursor on one of its edges is MOVING.
C19_MovingWithinPath ==
    \A r \in RobotIds :
        /\ robots[r].status = MOVING
               => /\ robots[r].path # <<>>
                  /\ 0 <= robots[r].current_edge_index
                  /\ robots[r].current_edge_index <= Len(robots[r].path) - 1
        /\ CursorOnEdge(r) => robots[r].status = MOVING

\* a robot has arrived at the last vertex of a path of two vertices or more
\* and is still MOVING
C19_Witness ==
    \E r \in RobotIds :
        /\ robots[r].status = MOVING
        /\ Len(robots[r].path) >= 2
        /\ robots[r].current_edge_index = Len(robots[r].path) - 1
        /\ robots[r].current_vertex = robots[r].target_vertex

\* C25: a tick attempts again the assignment of a BLOCKED robot only when the
\* robot has no last_retry_time yet or RetryInterval has passed since it, and
\* every such attempt sets last_retry_time to the time of the tick: two
\* attempts for a robot are never less than RetryInterval apart.
C25_RetryBackoff ==
    [][ ret'.op = "tick"
        => \A w \in ret'.retried :
              /\ robots[w].status = BLOCKED
              /\ \/ robots[w].last_retry_time = NoTime
                 \/ now' - robots[w].last_retry_time >= RetryInterval
              /\ robots'[w].last_retry_time = now'
      ]_vars

\* a tick has attempted again the assignment of a robot whose attempt before
\* was RetryInterval earlier, by the time of the tick before this one
C25_Witness ==
    /\ ret.op = "tick"
    /\ \E w \in ret.retried :
          /\ robots[w].status = BLOCKED
          /\ robots[w].last_retry_time = now
          /\ last_update = now
          /\ now >= lock_duration + 1 + RetryInterval

----------------------------------------------------------------------------
(* Properties of the TrafficManager *)

\* element e of the table `locks` is under an unexpired lease of another robot
Held(locks, e, robot_id, t) ==
    /\ e \in DOMAIN locks
    /\ locks[e].robot # robot_id
    /\ Unexpired(locks[e], t)

\* the i-th vertex of the path, or the edge that leaves it, is contested
ContestedAt(path, i, robot_id, t) ==
    \/ Held(vertex_locks, path[i], robot_id, t)
    \/ Held(edge_locks, <<path[i], path[i + 1]>>, robot_id, t)

Contested(path, robot_id, t) ==
    \E i \in 1..(Len(path) - 1) : ContestedAt(path, i, robot_id, t)

FirstContested(path, robot_id, t) ==
    CHOOSE i \in 1..(Len(path) - 1) :
        /\ ContestedAt(path, i, robot_id, t)
        /\ \A j \in 1..(i - 1) : ~ContestedAt(path, j, robot_id, t)

\* the holder of the contested element at the i-th vertex, the vertex first
HolderAt(path, i, robot_id, t) ==
    IF Held(vertex_locks, path[i], robot_id, t)
    THEN vertex_locks[path[i]].robot
    ELSE edge_locks[<<path[i], path[i + 1]>>].robot

\* the waiting lists with robot_id waiting at v, once
WithWaiter(wq, v, robot_id) ==
    [u \in DOMAIN wq \cup {v} |->
        IF u # v THEN wq[u]
        ELSE IF v \notin DOMAIN wq THEN <<robot_id>>
        ELSE IF robot_id \in Range(wq[v]) THEN wq[v]
        ELSE wq[v] \o <<robot_id>>]

\* C3: a vertex or directed edge passes from one robot to another only when
\* the lease of the former is lock_duration old or older: no element is under
\* two unexpired leases of distinct robots.
C3_NoGrantOverLiveLease ==
    [][ /\ \A v \in DOMAIN vertex_locks \cap DOMAIN vertex_locks' :
              vertex_locks'[v].robot # vertex_locks[v].robot
                  => vertex_locks'[v].time - vertex_locks[v].time >= lock_duration
        /\ \A e \in DOMAIN edge_locks \cap DOMAIN edge_locks' :
              edge_locks'[e].robot # edge_locks[e].robot
                  => edge_locks'[e].time - edge_locks[e].time >= lock_duration
      ]_vars

\* a granted request has taken over a vertex whose edge is still under the
\* expired lease of the other robot
C3_Witness ==
    /\ ret.op = "request"
    /\ ret.ok
    /\ \E e \in DOMAIN edge_locks :
          /\ e[1] \in stamped_vertices(ret.path)
          /\ vertex_locks[e[1]] = Lock(ret.robot, now)
          /\ edge_locks[e].robot # ret.robot
          /\ now - edge_locks[e].time >= lock_duration

\* C4: a request that finds a contested element is denied, leaves the vertex
\* and edge reservations as they were, and only adds the robot to the waiting
\* list of the contested vertex.
C4_AllOrNothing ==
    [][ (ret'.op = "request" /\ Contested(ret'.path, ret'.robot, now))
        => /\ ~ret'.ok
           /\ vertex_locks' = vertex_locks
           /\ edge_locks' = edge_locks
           /\ waiting_queues' =
                 WithWaiter(waiting_queues,
                            ret'.path[FirstContested(ret'.path, ret'.robot, now)],
                            ret'.robot)
      ]_vars

\* a request was denied at the second vertex of its path, and its first
\* vertex is still free
C4_Witness ==
    /\ ret.op = "request"
    /\ ~ret.ok
    /\ Len(ret.path) = 3
    /\ ret.path[1] \notin DOMAIN vertex_locks
    /\ ret.path[2] \in DOMAIN waiting_queues
    /\ ret.robot \in Range(waiting_queues[ret.path[2]])

C20_ReleaseFrame ==
    [][ ret'.op = "release"
        => /\ DOMAIN vertex_locks' =
                 DOMAIN vertex_locks \
                     {v \in {ret'.vertex} :
                         /\ v \in DOMAIN vertex_locks
                         /\ vertex_locks[v].robot = ret'.robot}
           /\ \A v \in DOMAIN vertex_locks' : vertex_locks'[v] = vertex_locks[v]
           /\ DOMAIN edge_locks' =
                 {e \in DOMAIN edge_locks : edge_locks[e].robot # ret'.robot}
           /\ \A e \in DOMAIN edge_locks' : edge_locks'[e] = edge_locks[e]
      ]_vars

\* after a release the robot still holds another vertex, the released vertex
\* is free, and another robot holds a vertex and an edge
C20_Witness ==
    /\ ret.op = "release"
    /\ ret.vertex \notin DOMAIN vertex_locks
    /\ \E u \in DOMAIN vertex_locks : vertex_locks[u].robot = ret.robot
    /\ \E u \in DOMAIN vertex_locks : vertex_locks[u].robot # ret.robot
    /\ \E e \in DOMAIN edge_locks : edge_locks[e].robot # ret.robot

\* the robot of the release does not hold the vertex of the release
ReleasesUnheld ==
    /\ ret'.op = "release"
    /\ \/ ret'.vertex \notin DOMAIN vertex_locks
       \/ vertex_locks[ret'.vertex].robot # ret'.robot

Touched(locks, after, e) == e \notin DOMAIN after \/ after[e] # locks[e]

\* the only ways in which an entry of a table changes: the release of its
\* holder removes it, a granted request stamps it anew
RemovedOrRestamped(locks, after, e) ==
    \/ /\ ret'.op = "release"
       /\ ret'.robot = locks[e].robot
       /\ e \notin DOMAIN after
    \/ /\ ret'.op = "request"
       /\ ret'.ok
       /\ e \in DOMAIN after
       /\ after[e] = Lock(ret'.robot, now)

\* C22: a lease that is lock_duration old or older never makes a request of
\* another robot fail (a request that meets only free elements, its own
\* leases and expired leases is granted), and an entry of the tables changes
\* only by the release of its holder or by a granted request that stamps it
\* anew: not by a denied request, and not by the passage of time.
C22_StaleLeaseTolerated ==
    [][ /\ (ret'.op = "request" /\ ~Contested(ret'.path, ret'.robot, now))
              => ret'.ok
        /\ \A v \in DOMAIN vertex_locks :
              Touched(vertex_locks, vertex_locks', v)
                  => RemovedOrRestamped(vertex_locks, vertex_locks', v)
        /\ \A e \in DOMAIN edge_locks :
              Touched(edge_locks, edge_locks', e)
                  => RemovedOrRestamped(edge_locks, edge_locks', e)
      ]_vars

\* a request was granted an edge whose lease had expired: the edge that leads
\* to it is still in the table, under the expired lease of the other robot
C22_Witness ==
    /\ ret.op = "request"
    /\ ret.ok
    /\ \E e \in stamped_edges(ret.path), d \in DOMAIN edge_locks :
          /\ d[2] = e[1]
          /\ edge_locks[e] = Lock(ret.robot, now)
          /\ edge_locks[d].robot # ret.robot
          /\ now - edge_locks[d].time >= lock_duration

\* the table `locks` with the elements stamped for the robot at time t
Stamped(locks, elements, robot_id, t) ==
    [e \in DOMAIN locks \cup elements |->
        IF e \in elements THEN [robot |-> robot_id, time |-> t] ELSE locks[e]]

\* C23: a granted request stamps every vertex of the path but the last and
\* every directed edge of the path with the robot and the time of the call,
\* and changes no other reservation and no waiting list; a request for a
\* path of fewer than two vertices is granted and changes nothing.
C23_GrantStamps ==
    [][ ret'.op = "request"
        => LET path == ret'.path
               n    == Len(path)
           IN  /\ n < 2 => ret'.ok
               /\ ret'.ok
                    => /\ vertex_locks' =
                             Stamped(vertex_locks,
                                     {path[i] : i \in 1..(n - 1)},
                                     ret'.robot, now)
                       /\ edge_locks' =
                             Stamped(edge_locks,
                                     {<<path[i], path[i + 1]>> : i \in 1..(n - 1)},
                                     ret'.robot, now)
                       /\ waiting_queues' = waiting_queues
      ]_vars

\* a request for a path of three vertices was granted while another robot
\* holds the last vertex under an unexpired lease
C23_Witness ==
    /\ ret.op = "request"
    /\ ret.ok
    /\ Len(ret.path) = 3
    /\ ret.path[3] \in DOMAIN vertex_locks
    /\ vertex_locks[ret.path[3]].robot # ret.robot
    /\ now - vertex_locks[ret.path[3]].time < lock_duration

\* C24: no waiting list holds a robot twice.
C24_NoDuplicateWaiter ==
    \A v \in DOMAIN waiting_queues :
        \A i \in DOMAIN waiting_queues[v], j \in DOMAIN waiting_queues[v] :
            waiting_queues[v][i] = waiting_queues[v][j] => i = j

\* a request was denied and added no one to a waiting list: the robot was on
\* the list of the contested vertex already
C24_Witness ==
    /\ ret.op = "request"
    /\ ~ret.ok
    /\ ~ret.appended
    /\ \E v \in DOMAIN waiting_queues : ret.robot \in Range(waiting_queues[v])

\* C26: a MOVING robot that has not reached the last vertex of its path is the
\* recorded holder of an unexpired vertex lock on path[cursor], the vertex it
\* is leaving, for the whole time it spends on the edge.
C26_LeavingVertexLeased ==
    \A r \in RobotIds :
        Traversing(r)
        => LET v == robots[r].path[robots[r].current_edge_index + 1]
           IN  /\ v \in DOMAIN vertex_locks
               /\ vertex_locks[v].robot = r
               /\ Unexpired(vertex_locks[v], now)

\* no vertex lock and no edge lock is recorded for the robot
HoldsNothing(r) ==
    /\ \A v \in DOMAIN vertex_locks : vertex_locks[v].robot # r
    /\ \A e \in DOMAIN edge_locks : edge_locks[e].robot # r

\* C27: a robot whose status is IDLE, BLOCKED or TASK_COMPLETE is the holder
\* of no vertex lock and of no edge lock.
C27_OnlyMovingHolds ==
    \A r \in RobotIds :
        robots[r].status \in {IDLE, BLOCKED, TASK_COMPLETE} => HoldsNothing(r)

\* a robot has completed a path of at least one edge and holds nothing, while
\* locks of another robot are recorded
C27_Witness ==
    \E r \in RobotIds, q \in RobotIds :
        /\ robots[r].status = TASK_COMPLETE
        /\ Len(robots[r].path) >= 2
        /\ HoldsNothing(r)
        /\ ~HoldsNothing(q)

====
